---- MODULE Spec2Model ----
(***************************************************************************)
(* Model of the air-cargo Book1 -> Book2 transformer.                      *)
(*                                                                         *)
(* The pipeline of src/in/transform.py (transform_data) is a state machine *)
(* over the data frame: status filter, zero-weight filter, duplicate       *)
(* removal, grouping by flight, per-row classification (classify_cargo)    *)
(* and the per-flight totals.  A second specification calls classify_cargo *)
(* once on a record drawn from a product of field domains.                 *)
(* SpecVariants runs the pipeline on inputs with a missing column, a text  *)
(* weight or flights that differ in time of day or letter case; SpecTwice  *)
(* calls classify_cargo twice with the clock running; SpecExtended calls   *)
(* the fine-grained classifiers of src/transform.py, src/src/transform.py. *)
(*                                                                         *)
(* Text cells are sequences of one-character strings, so that upper(),     *)
(* lower(), strip(), startswith() and the substring test `in` are computed *)
(* and not assumed.  NA is the missing cell (pandas NaN / None).  Weights  *)
(* are integers (the code uses floats; sums here are exact).               *)
(***************************************************************************)
EXTENDS Integers, Sequences, FiniteSets, TLC

VARIABLES
    input,                   \* df_book1 as read from the input file
    df,                      \* df_book1, the working data frame
    pc,                      \* position in transform_data / in the single call
    duplicates_df,           \* rows of every duplicate group (keep=False)
    duplicates_removed,      \* rows_before_dedup - len(df_book1)
    duplicate_log,           \* group entries written to duplicate_entries.txt
    grouped,                 \* group keys still to be iterated
    group,                   \* rows of the current group still to be iterated
    row_data,                \* the Book2 row being built
    unique_awbs_by_category, \* per-category AWB sets of the current flight
    category,                \* last category returned by classify_cargo
    unclassified_log,
    transit_conflict_log,
    book2_data,              \* rows appended so far
    columns,                 \* df_book1.columns after the renaming
    result,                  \* what transform_data returned or raised
    files,                   \* names of the files written so far
    now,                     \* datetime.now(), in seconds
    returns,                 \* (category, weight) of the single calls made
    unclassified_words       \* FlightDataTransformer.unclassified_words

vars == <<input, df, pc, duplicates_df, duplicates_removed, duplicate_log,
          grouped, group, row_data, unique_awbs_by_category, category,
          unclassified_log, transit_conflict_log, book2_data,
          columns, result, files, now, returns, unclassified_words>>

----------------------------------------------------------------------------
(* Text cells                                                              *)

NA == <<"<NA>">>

notna(v) == v # NA

LowerLetters == <<"a","b","c","d","e","f","g","h","i","j","k","l","m",
                  "n","o","p","q","r","s","t","u","v","w","x","y","z">>
UpperLetters == <<"A","B","C","D","E","F","G","H","I","J","K","L","M",
                  "N","O","P","Q","R","S","T","U","V","W","X","Y","Z">>

\* the case maps, as tables over the letters
UpperTable ==
    [c \in {LowerLetters[i] : i \in 1..26} |->
        UpperLetters[CHOOSE i \in 1..26 : LowerLetters[i] = c]]

LowerTable ==
    [c \in {UpperLetters[i] : i \in 1..26} |->
        LowerLetters[CHOOSE i \in 1..26 : UpperLetters[i] = c]]

UpperChar(c) == IF c \in DOMAIN UpperTable THEN UpperTable[c] ELSE c

LowerChar(c) == IF c \in DOMAIN LowerTable THEN LowerTable[c] ELSE c

upper(s) == [i \in 1..Len(s) |-> UpperChar(s[i])]
lower(s) == [i \in 1..Len(s) |-> LowerChar(s[i])]

Whitespace == {" "}

RECURSIVE lstrip(_)
lstrip(s) == IF s # <<>> /\ Head(s) \in Whitespace THEN lstrip(Tail(s)) ELSE s

RECURSIVE rstrip(_)
rstrip(s) ==
    IF s # <<>> /\ s[Len(s)] \in Whitespace
    THEN rstrip(SubSeq(s, 1, Len(s) - 1))
    ELSE s

strip(s) == rstrip(lstrip(s))

\* Python `term in s` on strings
Contains(term, s) ==
    \E i \in 1..(Len(s) - Len(term) + 1) : SubSeq(s, i, i + Len(term) - 1) = term

startswith(s, prefix) ==
    Len(s) >= Len(prefix) /\ SubSeq(s, 1, Len(prefix)) = prefix

\* str(x) of a cell: a missing cell prints as 'nan'
str(v) == IF v = NA THEN <<"n","a","n">> ELSE v

----------------------------------------------------------------------------
(* Weight cells                                                            *)

Num(n) == [kind |-> "num", val |-> n]
NaN == [kind |-> "nan", val |-> 0]
\* a cell of text that float() cannot parse
NonNumeric == [kind |-> "text", val |-> 0]

----------------------------------------------------------------------------
(* classify_cargo: keyword and code lists                                  *)

s_CKD == <<"C","K","D">>
s_DAR == <<"D","A","R">>
s_MAL == <<"M","A","L">>
s_COU == <<"C","O","U">>
s_courier == <<"c","o","u","r","i","e","r">>
s_dangerous == <<"d","a","n","g","e","r","o","u","s">>

perishable_shcs ==
    {<<"C","O","L">>, <<"F","R","O">>, <<"C","R","T">>,
     <<"I","C","E">>, <<"E","R","T">>, <<"P","E","R">>,
     <<"P","E","F">>, <<"P","E","S">>, <<"P","E","M">>}

perishable_terms ==
    {<<"p","e","r","i","s","h","a","b","l","e">>, <<"f","r","e","s","h">>,
     <<"c","h","i","l","l","e","d">>, <<"f","r","o","z","e","n">>,
     <<"c","o","o","l">>, <<"c","o","l","d">>,
     <<"f","l","o","w","e","r">>, <<"f","i","s","h">>,
     <<"m","e","a","t">>, <<"v","e","g","e","t","a","b","l","e">>,
     <<"f","r","u","i","t">>, <<"a","v","o","c","a","d","o">>}

dangerous_shcs ==
    {<<"D","G","R">>, <<"R","R","Y">>, <<"R","M","D">>,
     <<"R","P","B">>, <<"R","F","L">>, <<"R","C","G">>,
     <<"R","N","G">>, <<"R","I","S">>, <<"R","D","S">>}

general_shcs == {<<"G","E","N">>, <<"G","C","R">>}

generic_terms ==
    {<<"g","e","n","e","r","a","l"," ","c","a","r","g","o">>,
     <<"c","a","r","g","o">>, <<"g","e","n","e","r","a","l">>,
     <<"g","e","n">>, <<>>}

----------------------------------------------------------------------------
(* classify_cargo: the normalised locals of one call                       *)

nature_goods(row) ==
    IF notna(row.Nature_Goods) THEN lower(str(row.Nature_Goods)) ELSE <<>>

shcs(row) == IF notna(row.SHCs) THEN upper(str(row.SHCs)) ELSE <<>>

\* float(row['Weight']) raises ValueError on text that is not a number
float_raises(row) == row.Weight.kind = "text"

weight(row) == IF row.Weight.kind = "num" THEN row.Weight.val ELSE 0

awb(row) == IF notna(row.AWB) THEN str(row.AWB) ELSE <<>>

import_status(row) ==
    IF notna(row.Import_Status) THEN upper(str(row.Import_Status)) ELSE <<>>

awb_dest(row) ==
    IF notna(row.AWB_Dest) THEN strip(upper(str(row.AWB_Dest))) ELSE <<>>

(* the tests of the priority chain, in source order *)

has_ckd(row) == Contains(s_CKD, import_status(row))

dest_not_dar(row) == awb_dest(row) # s_DAR /\ awb_dest(row) # <<>>

is_transit(row) == has_ckd(row) /\ dest_not_dar(row)

\* mutant of is_transit_conflict: only CKD without destination is a conflict
is_transit_conflict_ckd_only(row) == has_ckd(row) /\ ~dest_not_dar(row)

is_transit_conflict(row) ==
    ~is_transit(row) /\ (has_ckd(row) \/ dest_not_dar(row))

is_po_mail(row) == startswith(awb(row), s_MAL)

is_courier(row) ==
    Contains(s_COU, shcs(row)) \/ Contains(s_courier, nature_goods(row))

is_per_col(row) ==
    LET sh == shcs(row)
        ng == nature_goods(row)
    IN  \/ \E term \in perishable_shcs : Contains(term, sh)
        \/ \E term \in perishable_terms : Contains(term, ng)

is_dg(row) ==
    LET sh == shcs(row)
    IN  \/ \E term \in dangerous_shcs : Contains(term, sh)
        \/ Contains(s_dangerous, nature_goods(row))

is_gen_shc(row) ==
    LET sh == shcs(row) IN \E term \in general_shcs : Contains(term, sh)

is_unclassified(row) ==
    nature_goods(row) # <<>> /\ nature_goods(row) \notin generic_terms

\* The log entries; 'Timestamp' is datetime.now() at the time of the call.
TransitConflictEntry(row) ==
    [Timestamp |-> now,
     AWB |-> awb(row),
     Import_Status |-> row.Import_Status,
     AWB_Dest |-> row.AWB_Dest,
     Has_CKD |-> has_ckd(row),
     Dest_Not_DAR |-> dest_not_dar(row),
     Weight |-> weight(row),
     Nature_Goods |-> row.Nature_Goods,
     SHCs |-> row.SHCs,
     Reason |-> IF has_ckd(row) THEN "CKD without non-DAR destination"
                ELSE "Non-DAR destination without CKD"]

UnclassifiedEntry(row) ==
    [Timestamp |-> now,
     AWB |-> awb(row),
     Nature_Goods |-> row.Nature_Goods,
     SHCs |-> row.SHCs,
     Import_Status |-> row.Import_Status,
     AWB_Dest |-> row.AWB_Dest,
     Weight |-> weight(row)]

\* mutant of cargo_category: the perishable test precedes the courier test
cargo_category_per_first(row) ==
    IF is_transit(row) THEN "TRANSIT"
    ELSE IF is_po_mail(row) THEN "P.O MAIL"
    ELSE IF is_per_col(row) THEN "PER/COL"
    ELSE IF is_courier(row) THEN "COURIER"
    ELSE IF is_dg(row) THEN "DG"
    ELSE "GENCARGO"

\* the category returned for a row of non-zero weight
cargo_category(row) ==
    IF is_transit(row) THEN "TRANSIT"
    ELSE IF is_po_mail(row) THEN "P.O MAIL"
    ELSE IF is_courier(row) THEN "COURIER"
    ELSE IF is_per_col(row) THEN "PER/COL"
    ELSE IF is_dg(row) THEN "DG"
    ELSE "GENCARGO"

\* mutant of log_transit_conflict: nothing is logged once the log has an entry
log_transit_conflict_once(row, tlog) ==
    IF is_transit_conflict(row) /\ tlog = <<>>
    THEN Append(tlog, TransitConflictEntry(row))
    ELSE tlog

\* the transit-conflict log after the call
log_transit_conflict(row, tlog) ==
    IF is_transit_conflict(row)
    THEN Append(tlog, TransitConflictEntry(row))
    ELSE tlog

\* mutant of log_unclassified: the GEN/GCR return does not skip the logging
log_unclassified_despite_gen_shc(row, ulog) ==
    IF /\ cargo_category(row) = "GENCARGO"
       /\ is_unclassified(row)
    THEN Append(ulog, UnclassifiedEntry(row))
    ELSE ulog

\* the unclassified log after the call
log_unclassified(row, ulog) ==
    IF /\ cargo_category(row) = "GENCARGO"
       /\ ~is_gen_shc(row)
       /\ is_unclassified(row)
    THEN Append(ulog, UnclassifiedEntry(row))
    ELSE ulog

\* classify_cargo(row, unclassified_log, transit_conflict_log):
\* the returned (category, weight) and the two logs after the call
classify_cargo(row, ulog, tlog) ==
    IF weight(row) = 0
    THEN [category |-> "None", weight |-> 0,
          unclassified_log |-> ulog, transit_conflict_log |-> tlog]
    ELSE [category |-> cargo_category(row), weight |-> weight(row),
          unclassified_log |-> log_unclassified(row, ulog),
          transit_conflict_log |-> log_transit_conflict(row, tlog)]

----------------------------------------------------------------------------
(* classify_flight_category, classify_flight_route                         *)

classify_flight_category(carrier, flight_no) ==
    LET c == IF notna(carrier) THEN upper(str(carrier)) ELSE <<>>
        f == IF notna(flight_no) THEN upper(str(flight_no)) ELSE <<>>
    IN  IF c = <<"T","C">>
        THEN IF startswith(f, <<"T","C","1">>) THEN "DOMESTIC"
             ELSE IF \/ startswith(f, <<"T","C","2">>)
                     \/ startswith(f, <<"T","C","4">>)
                     \/ startswith(f, <<"T","C","5">>)
                     \/ startswith(f, <<"T","C","0","5">>)
                  THEN "TC-FOREIGN"
                  ELSE "FOREIGN"
        ELSE IF c = <<"P","W">> THEN "DOMESTIC"
        ELSE "FOREIGN"

classify_flight_route(origin, dest) ==
    LET o == IF notna(origin) THEN upper(str(origin)) ELSE <<>>
        d == IF notna(dest) THEN upper(str(dest)) ELSE <<>>
    IN  o \o <<"-">> \o d

----------------------------------------------------------------------------
(* Data-frame operations of transform_data                                 *)

\* the rows of d at the indices in I, in order
RECURSIVE take(_, _, _)
take(d, I, i) ==
    IF i > Len(d) THEN <<>>
    ELSE (IF i \in I THEN <<d[i]>> ELSE <<>>) \o take(d, I, i + 1)

rows_at(d, I) == take(d, I, 1)

required_columns ==
    {"Flight date", "Carrier", "Flight No.", "Origin", "Dest", "AWB", "Pieces",
     "Weight", "ULD Number", "Import Status", "AWB Dest", "Nature Goods", "SHCs"}

\* mutant of missing_columns: 'Weight' is not among the columns checked
missing_columns_but_weight(cols) == (required_columns \ {"Weight"}) \ cols

missing_columns(cols) == required_columns \ cols

\* STEP 1: ~df['Import Status Clean'].isin(excluded_statuses)
excluded_statuses == {<<"M","I","S">>, <<"A","C","C">>, <<"N","O","T">>}

\* mutant of import_status_clean: the status is not trimmed
import_status_unstripped(row) == upper(str(row.Import_Status))

import_status_clean(row) == strip(upper(str(row.Import_Status)))

status_filter(d) ==
    rows_at(d, {i \in 1..Len(d) : import_status_clean(d[i]) \notin excluded_statuses})

\* STEP 2: df['Weight'] != 0   (NaN != 0 is True)
weight_filter(d) == rows_at(d, {i \in 1..Len(d) : d[i].Weight # Num(0)})

\* STEP 3: df['ULD Number'].astype(str).str.strip()
clean_uld(d) ==
    [i \in 1..Len(d) |-> [d[i] EXCEPT !.ULD_Number = strip(str(@))]]

nature_goods_clean(row) == lower(strip(str(row.Nature_Goods)))

shcs_clean(row) == upper(strip(str(row.SHCs)))

\* duplicate_check_cols
duplicate_key(row) ==
    <<row.Flight_date, row.Flight_No, row.AWB, row.Pieces, row.Weight,
      row.ULD_Number, nature_goods_clean(row), shcs_clean(row)>>

\* df.duplicated(subset=duplicate_check_cols, keep=False); NaN cells compare equal
duplicated_all(d) ==
    {i \in 1..Len(d) :
        \E j \in 1..Len(d) : j # i /\ duplicate_key(d[j]) = duplicate_key(d[i])}

\* mutant of drop_duplicates: a row is dropped only when exactly one earlier
\* row has its key
drop_second_occurrence(d) ==
    rows_at(d, {i \in 1..Len(d) :
                   Cardinality({j \in 1..(i - 1) :
                       duplicate_key(d[j]) = duplicate_key(d[i])}) # 1})

\* df.drop_duplicates(subset=duplicate_check_cols, keep='first')
drop_duplicates(d) ==
    rows_at(d, {i \in 1..Len(d) :
                   \A j \in 1..(i - 1) : duplicate_key(d[j]) # duplicate_key(d[i])})

\* groupby drops a group whose key has a missing cell
key_has_na(row) ==
    \/ row.Flight_date = NA
    \/ row.Flight_No = NA
    \/ row.AWB = NA
    \/ row.Weight = NaN

\* the "Duplicate Group" entries written to duplicate_entries.txt:
\* one per group of duplicates_df.groupby(duplicate_check_cols), with the
\* fields of group.iloc[0].  (The file lists them in key order; the model
\* keeps them as a set.)
duplicate_groups(dd) ==
    {[appeared |-> Cardinality({j \in 1..Len(dd) :
                        duplicate_key(dd[j]) = duplicate_key(dd[i])}),
      first |-> dd[i]] :
        i \in {i \in 1..Len(dd) :
                  /\ ~key_has_na(dd[i])
                  /\ \A j \in 1..(i - 1) :
                        duplicate_key(dd[j]) # duplicate_key(dd[i])}}

----------------------------------------------------------------------------
(* groupby(['Flight date', 'Carrier', 'Flight No.', 'Origin', 'Dest'])     *)

flight_key(row) ==
    <<row.Flight_date, row.Carrier, row.Flight_No, row.Origin, row.Dest>>

flight_key_has_na(row) == \E i \in 1..5 : flight_key(row)[i] = NA

\* character order used to sort the group keys
CharOrder ==
    <<" ","-",".","/","0","1","2","3","4","5","6","7","8",
      "9","A","B","C","D","E","F","G","H","I","J","K","L",
      "M","N","O","P","Q","R","S","T","U","V","W","X","Y",
      "Z","a","b","c","d","e","f","g","h","i","j","k","l",
      "m","n","o","p","q","r","s","t","u","v","w","x","y",
      "z">>

Ord(c) == CHOOSE i \in 1..Len(CharOrder) : CharOrder[i] = c

RECURSIVE str_less(_, _)
str_less(a, b) ==
    IF b = <<>> THEN FALSE
    ELSE IF a = <<>> THEN TRUE
    ELSE IF Head(a) = Head(b) THEN str_less(Tail(a), Tail(b))
    ELSE Ord(Head(a)) < Ord(Head(b))

date_less(a, b) == a[1] < b[1] \/ (a[1] = b[1] /\ a[2] < b[2])

key_less(k, l) ==
    \/ date_less(k[1], l[1])
    \/ k[1] = l[1] /\ \E i \in 2..5 :
          /\ str_less(k[i], l[i])
          /\ \A j \in 2..(i - 1) : k[j] = l[j]

RECURSIVE sorted_keys(_)
sorted_keys(K) ==
    IF K = {} THEN <<>>
    ELSE LET m == CHOOSE k \in K : \A l \in K \ {k} : key_less(k, l)
         IN  <<m>> \o sorted_keys(K \ {m})

\* the group keys in iteration order
group_keys(d) ==
    sorted_keys({flight_key(d[i]) :
                    i \in {i \in 1..Len(d) : ~flight_key_has_na(d[i])}})

group_rows(d, key) == rows_at(d, {i \in 1..Len(d) : flight_key(d[i]) = key})

----------------------------------------------------------------------------
(* The Book2 row of one flight                                             *)

category_columns == {"GENCARGO", "PER/COL", "DG", "TRANSIT", "P.O MAIL", "COURIER"}

awb_columns == {"GEN(awb)", "COL(awb)", "DG(awb)", "TNST(awb)", "COU(awb)"}

\* awb_col_mapping: P.O MAIL has no AWB column
awb_col_mapping ==
    [c \in {"GENCARGO", "PER/COL", "DG", "TRANSIT", "COURIER"} |->
        CASE c = "GENCARGO" -> "GEN(awb)"
          [] c = "PER/COL"  -> "COL(awb)"
          [] c = "DG"       -> "DG(awb)"
          [] c = "TRANSIT"  -> "TNST(awb)"
          [] c = "COURIER"  -> "COU(awb)"]

\* mutant of total_awb_categories: the mail set is counted too
total_awb_categories_with_mail ==
    {"GENCARGO", "PER/COL", "DG", "TRANSIT", "COURIER", "P.O MAIL"}

\* the categories whose AWB sets make up AWB TOTAL
total_awb_categories == {"GENCARGO", "PER/COL", "DG", "TRANSIT", "COURIER"}

\* flight_date.date() of a Timestamp <<day, time of day>>
date_only(flight_date) == <<flight_date[1]>>

\* row_data as initialised for one group
new_row_data(key) ==
    [c \in category_columns \cup awb_columns |-> 0]
    @@ ("DATE" :> date_only(key[1]))
    @@ ("AIRLINE" :> key[2])
    @@ ("FLIGHT NO" :> key[3])
    @@ ("ROUTE" :> classify_flight_route(key[4], key[5]))
    @@ ("R/CATEGORY" :> classify_flight_category(key[2], key[3]))

new_unique_awbs == [c \in category_columns |-> {}]

\* mutant of add_weight: assigns instead of accumulating
add_weight_overwrite(rd, cat, w) ==
    IF cat \in DOMAIN rd THEN [rd EXCEPT ![cat] = w] ELSE rd

\* row_data[category] += weight
add_weight(rd, cat, w) ==
    IF cat \in DOMAIN rd THEN [rd EXCEPT ![cat] = @ + w] ELSE rd

\* mutant of track_awb: a missing AWB is added as the text 'nan'
track_awb_missing_too(ua, row, cat) ==
    IF cat \in DOMAIN ua
    THEN [ua EXCEPT ![cat] = @ \cup {str(row.AWB)}]
    ELSE ua

\* unique_awbs_by_category[category].add(awb_number)
track_awb(ua, row, cat) ==
    LET awb_number == IF notna(row.AWB) THEN str(row.AWB) ELSE <<>>
    IN  IF awb_number # <<>> /\ cat \in DOMAIN ua
        THEN [ua EXCEPT ![cat] = @ \cup {awb_number}]
        ELSE ua

RECURSIVE sum_over(_, _)
sum_over(f, S) ==
    IF S = {} THEN 0
    ELSE LET x == CHOOSE x \in S : TRUE IN f[x] + sum_over(f, S \ {x})

\* the AWB counts and the totals of the finished row
finish_row(rd, ua) ==
    LET counted == [col \in awb_columns |->
                       Cardinality(ua[CHOOSE c \in DOMAIN awb_col_mapping :
                                         awb_col_mapping[c] = col])]
        all_unique_awbs == UNION {ua[c] : c \in total_awb_categories}
    IN  ("AWB TOTAL" :> Cardinality(all_unique_awbs))
        @@ ("TOTAL WEIGHT" :> sum_over(rd, category_columns))
        @@ counted
        @@ rd

----------------------------------------------------------------------------
(* Input records                                                           *)

MaxRows == 3

BaseRow ==
    [Flight_date |-> <<5, 0>>, Carrier |-> <<"F","X">>,
     Flight_No |-> <<"F","X","1","0","0">>, Origin |-> <<"J","F","K">>,
     Dest |-> <<"D","A","R">>, AWB |-> <<"A","1">>, Pieces |-> 1,
     Weight |-> Num(10), ULD_Number |-> <<"A","K","E","1">>,
     Import_Status |-> <<"R","C","F">>, AWB_Dest |-> <<"D","A","R">>,
     Nature_Goods |-> <<"c","a","r","g","o">>, SHCs |-> <<"G","E","N">>]

OtherFlight ==
    [BaseRow EXCEPT !.Carrier = <<"T","C">>, !.Flight_No = <<"T","C","1","0","1">>,
                    !.Origin = <<"D","A","R">>, !.Dest = <<"Z","N","Z">>]

MailRow ==
    [BaseRow EXCEPT !.AWB = <<"M","A","L","9","0","0">>, !.Weight = Num(50),
                    !.Nature_Goods = <<"m","a","i","l">>, !.SHCs = NA]

WidgetRow ==
    [OtherFlight EXCEPT !.AWB = <<"A","3">>, !.AWB_Dest = <<"N","B","O">>,
                        !.Nature_Goods = <<"w","i","d","g","e","t","s">>, !.SHCs = NA]

RecordPool ==
    {\* three line-items of one mail AWB
     MailRow,
     [MailRow EXCEPT !.Pieces = 2],
     [MailRow EXCEPT !.ULD_Number = <<"P","M","C","2">>],
     \* a line-item of the mail AWB in transit
     [MailRow EXCEPT !.Weight = Num(30), !.Import_Status = <<"C","K","D">>,
                     !.AWB_Dest = <<"N","B","O">>, !.SHCs = <<"M","A","L"," ","C","O","U">>],
     \* general cargo
     BaseRow,
     \* another line-item of the same AWB: perishable by description
     [BaseRow EXCEPT !.Weight = Num(20), !.Nature_Goods = <<"F","r","e","s","h"," ","F","i","s","h">>,
                     !.SHCs = <<"D","G","R">>],
     \* the general-cargo line-item with a padded ULD cell and no carrier
     [BaseRow EXCEPT !.ULD_Number = <<"A","K","E","1"," ">>, !.Carrier = NA],
     \* the general-cargo line-item with an excluded import status
     [BaseRow EXCEPT !.Import_Status = <<"m","i","s"," ">>],
     \* another flight: zero weight, missing weight, missing AWB number
     [WidgetRow EXCEPT !.Weight = Num(0)],
     [WidgetRow EXCEPT !.Weight = NaN],
     [WidgetRow EXCEPT !.AWB = NA, !.Weight = Num(5)]}

RECURSIVE SeqsUpTo(_, _)
SeqsUpTo(S, n) ==
    IF n = 0 THEN {<<>>}
    ELSE LET shorter == SeqsUpTo(S, n - 1)
         IN  shorter \cup {Append(q, x) : q \in shorter, x \in S}

\* the field domains of a single classify_cargo call
AwbValues == {NA, <<"A","1">>, <<"M","A","L","1","2","3","4","5">>, <<"m","a","l","9","0","1">>, <<"M","a","l","7">>}
WeightValues == {Num(0), Num(50), NaN}
ImportStatusValues == {NA, <<"R","C","F">>, <<"C","K","D">>, <<"r","c","f"," ","c","k","d">>}
AwbDestValues == {NA, <<"D","A","R">>, <<" ","d","a","r"," ">>, <<"N","B","O">>, <<" ">>}
NatureGoodsValues ==
    {NA, <<"G","e","n","e","r","a","l"," ","C","a","r","g","o">>, <<"f","r","e","s","h"," ","f","i","s","h">>, <<"C","o","u","r","i","e","r"," ","d","o","c","s">>,
     <<"d","a","n","g","e","r","o","u","s"," ","g","o","o","d","s">>, <<"w","i","d","g","e","t","s">>,
     <<" ","c","a","r","g","o"," ">>}
ShcValues ==
    {NA, <<"M","A","L"," ","C","O","U">>, <<"C","O","U"," ","P","E","R">>, <<"D","G","R">>, <<"P","E","R">>,
     <<"g","e","n">>, <<"E","A","T">>, <<"S","U","P","E","R">>, <<"A","V","I",",","C","O","U","/","E","A","T">>}

ClassifyInputs ==
    {[BaseRow EXCEPT !.AWB = a, !.Weight = w, !.Import_Status = st,
                     !.AWB_Dest = ad, !.Nature_Goods = ng, !.SHCs = sh] :
        a \in AwbValues, w \in WeightValues, st \in ImportStatusValues,
        ad \in AwbDestValues, ng \in NatureGoodsValues, sh \in ShcValues}

----------------------------------------------------------------------------
(* transform_data                                                          *)

Start(d, at) ==
    /\ input = d
    /\ df = d
    /\ pc = at
    /\ duplicates_df = <<>>
    /\ duplicates_removed = 0
    /\ duplicate_log = {}
    /\ grouped = <<>>
    /\ group = <<>>
    /\ row_data = <<>>
    /\ unique_awbs_by_category = new_unique_awbs
    /\ category = "None"
    /\ unclassified_log = <<>>
    /\ transit_conflict_log = <<>>
    /\ book2_data = <<>>
    /\ result = "pending"
    /\ files = {}
    /\ now = 0
    /\ returns = <<>>
    /\ unclassified_words = {}

Init ==
    /\ \E d \in SeqsUpTo(RecordPool, MaxRows) : Start(d, "check_columns")
    /\ columns = required_columns

\* the check of the required columns: return None when one is missing
CheckColumns ==
    /\ pc = "check_columns"
    /\ IF missing_columns(columns) # {}
       THEN pc' = "failed" /\ result' = "None"
       ELSE pc' = "status_filter" /\ UNCHANGED result
    /\ UNCHANGED <<columns, now, returns, unclassified_words, input, df,
                   duplicates_df, duplicates_removed, duplicate_log,
                   grouped, group, row_data, unique_awbs_by_category, category,
                   unclassified_log, transit_conflict_log, book2_data, files>>

\* STEP 1
StatusFilter ==
    /\ pc = "status_filter"
    /\ df' = status_filter(df)
    /\ pc' = "weight_filter"
    /\ UNCHANGED <<result, files, columns, now, returns, unclassified_words, input, duplicates_df, duplicates_removed, duplicate_log,
                   grouped, group, row_data, unique_awbs_by_category, category,
                   unclassified_log, transit_conflict_log, book2_data>>

\* STEP 2
WeightFilter ==
    /\ pc = "weight_filter"
    /\ df' = weight_filter(df)
    /\ pc' = "dedup"
    /\ UNCHANGED <<result, files, columns, now, returns, unclassified_words, input, duplicates_df, duplicates_removed, duplicate_log,
                   grouped, group, row_data, unique_awbs_by_category, category,
                   unclassified_log, transit_conflict_log, book2_data>>

\* STEP 3
RemoveDuplicates ==
    /\ pc = "dedup"
    /\ LET cleaned == clean_uld(df)
           dups == rows_at(cleaned, duplicated_all(cleaned))
           kept == drop_duplicates(cleaned)
           removed == Len(cleaned) - Len(kept)
       IN  /\ duplicates_df' = dups
           /\ df' = kept
           /\ duplicates_removed' = removed
           /\ duplicate_log' = IF removed > 0 /\ Len(dups) > 0
                               THEN duplicate_groups(dups)
                               ELSE {}
           /\ files' = IF removed > 0 /\ Len(dups) > 0
                       THEN files \cup {"duplicate_entries.txt"}
                       ELSE files
    /\ pc' = "group"
    /\ UNCHANGED <<result, columns, now, returns, unclassified_words, input, grouped, group, row_data, unique_awbs_by_category,
                   category, unclassified_log, transit_conflict_log, book2_data>>

GroupBy ==
    /\ pc = "group"
    /\ grouped' = group_keys(df)
    /\ pc' = "next_group"
    /\ UNCHANGED <<result, files, columns, now, returns, unclassified_words, input, df, duplicates_df, duplicates_removed, duplicate_log,
                   group, row_data, unique_awbs_by_category, category,
                   unclassified_log, transit_conflict_log, book2_data>>

\* the head of the loop over the groups
BeginGroup ==
    /\ pc = "next_group"
    /\ grouped # <<>>
    /\ group' = group_rows(df, Head(grouped))
    /\ row_data' = new_row_data(Head(grouped))
    /\ unique_awbs_by_category' = new_unique_awbs
    /\ pc' = "iterrows"
    /\ UNCHANGED <<result, files, columns, now, returns, unclassified_words, input, df, duplicates_df, duplicates_removed, duplicate_log,
                   grouped, category, unclassified_log, transit_conflict_log,
                   book2_data>>

\* one pass of the loop over group.iterrows()
ProcessAwbRow ==
    /\ pc = "iterrows"
    /\ group # <<>>
    /\ LET awb_row == Head(group)
           r == classify_cargo(awb_row, unclassified_log, transit_conflict_log)
       IN  IF float_raises(awb_row)
           THEN \* the ValueError leaves classify_cargo and transform_data
                /\ pc' = "raised"
                /\ result' = "ValueError"
                /\ UNCHANGED <<category, unclassified_log, transit_conflict_log,
                               row_data, unique_awbs_by_category, group>>
           ELSE /\ category' = r.category
                /\ unclassified_log' = r.unclassified_log
                /\ transit_conflict_log' = r.transit_conflict_log
                /\ IF r.category = "None"
                   THEN UNCHANGED <<row_data, unique_awbs_by_category>>
                   ELSE /\ row_data' = add_weight(row_data, r.category, r.weight)
                        /\ unique_awbs_by_category' =
                               track_awb(unique_awbs_by_category, awb_row, r.category)
                /\ group' = Tail(group)
                /\ UNCHANGED <<pc, result>>
    /\ UNCHANGED <<columns, now, returns, unclassified_words, files, input, df,
                   duplicates_df, duplicates_removed, duplicate_log, grouped,
                   book2_data>>

\* counts, totals and book2_data.append(row_data)
FinishGroup ==
    /\ pc = "iterrows"
    /\ group = <<>>
    /\ row_data' = finish_row(row_data, unique_awbs_by_category)
    /\ book2_data' = Append(book2_data, row_data')
    /\ grouped' = Tail(grouped)
    /\ pc' = "next_group"
    /\ UNCHANGED <<result, files, columns, now, returns, unclassified_words, input, df, duplicates_df, duplicates_removed, duplicate_log,
                   group, unique_awbs_by_category, category, unclassified_log,
                   transit_conflict_log>>

\* df_book2.to_excel(output_file), the log files, and return df_book2
SaveBook2 ==
    /\ pc = "next_group"
    /\ grouped = <<>>
    /\ files' = files \cup {"Book2.xlsx"}
                   \cup (IF transit_conflict_log # <<>>
                         THEN {"transit_conflicts.txt"} ELSE {})
                   \cup (IF unclassified_log # <<>>
                         THEN {"unclassified_words.txt"} ELSE {})
    /\ result' = "df_book2"
    /\ pc' = "done"
    /\ UNCHANGED <<columns, now, returns, unclassified_words, input, df, duplicates_df, duplicates_removed, duplicate_log,
                   grouped, group, row_data, unique_awbs_by_category, category,
                   unclassified_log, transit_conflict_log, book2_data>>

Next ==
    \/ CheckColumns
    \/ StatusFilter
    \/ WeightFilter
    \/ RemoveDuplicates
    \/ GroupBy
    \/ BeginGroup
    \/ ProcessAwbRow
    \/ FinishGroup
    \/ SaveBook2

Spec == Init /\ [][Next]_vars

----------------------------------------------------------------------------
(* transform_data on input files with a missing column, a weight cell of   *)
(* text, and flights that differ in time of day or letter case only        *)

VariantPool ==
    {BaseRow,
     \* a second line-item of the same AWB
     [BaseRow EXCEPT !.Pieces = 2],
     \* a line-item without AWB number
     [BaseRow EXCEPT !.AWB = NA, !.Weight = Num(5)],
     \* a weight cell of text
     [BaseRow EXCEPT !.AWB = <<"A","5">>, !.Weight = NonNumeric],
     \* the same flight at another time of day
     [BaseRow EXCEPT !.Flight_date = <<5, 1>>],
     \* the same flight with the origin in lower case
     [BaseRow EXCEPT !.Origin = <<"j","f","k">>]}

VariantColumns ==
    {required_columns, required_columns \ {"Weight"}, required_columns \ {"SHCs"}}

VariantInit ==
    /\ \E d \in SeqsUpTo(VariantPool, MaxRows) : Start(d, "check_columns")
    /\ columns \in VariantColumns

SpecVariants == VariantInit /\ [][Next]_vars

----------------------------------------------------------------------------
(* A single call of classify_cargo with empty logs                         *)

ClassifyInit ==
    /\ \E row \in ClassifyInputs : Start(<<row>>, "classify")
    /\ columns = required_columns

ClassifyCall ==
    /\ pc = "classify"
    /\ LET r == classify_cargo(df[1], unclassified_log, transit_conflict_log)
       IN  /\ category' = r.category
           /\ unclassified_log' = r.unclassified_log
           /\ transit_conflict_log' = r.transit_conflict_log
           /\ returns' = Append(returns, <<r.category, r.weight>>)
    /\ pc' = "returned"
    /\ UNCHANGED <<columns, now, result, files, unclassified_words, input, df, duplicates_df, duplicates_removed, duplicate_log,
                   grouped, group, row_data, unique_awbs_by_category,
                   book2_data>>

ClassifyNext == ClassifyCall

SpecClassify == ClassifyInit /\ [][ClassifyNext]_vars

----------------------------------------------------------------------------
(* Two calls of classify_cargo on the same record, the clock running       *)
(* between them.  (In the other specifications a run is shorter than one   *)
(* tick of the clock.)                                                     *)

MaxClock == 1

Tick ==
    /\ pc = "returned"
    /\ now < MaxClock
    /\ now' = now + 1
    /\ UNCHANGED <<columns, returns, result, files, unclassified_words, input,
                   df, pc, duplicates_df, duplicates_removed, duplicate_log,
                   grouped, group, row_data, unique_awbs_by_category, category,
                   unclassified_log, transit_conflict_log, book2_data>>

ClassifyAgain ==
    /\ pc = "returned"
    /\ LET r == classify_cargo(df[1], unclassified_log, transit_conflict_log)
       IN  /\ category' = r.category
           /\ unclassified_log' = r.unclassified_log
           /\ transit_conflict_log' = r.transit_conflict_log
           /\ returns' = Append(returns, <<r.category, r.weight>>)
    /\ pc' = "returned_again"
    /\ UNCHANGED <<columns, now, result, files, unclassified_words, input, df,
                   duplicates_df, duplicates_removed, duplicate_log,
                   grouped, group, row_data, unique_awbs_by_category,
                   book2_data>>

TwiceNext == ClassifyCall \/ Tick \/ ClassifyAgain

SpecTwice == ClassifyInit /\ [][TwiceNext]_vars

----------------------------------------------------------------------------
(* The extended variant: the fine-grained classifiers                      *)
(* FlightDataTransformer.classify_awb (src/transform.py) and               *)
(* classify_goods (src/src/transform.py)                                   *)

\* self.category_keywords, in the order the dict is iterated
category_keywords ==
    <<[category |-> "MEAT", keywords |->
          {<<"m","e","a","t">>, <<"n","y","a","m","a">>, <<"g","o","a","t"," ","m","e","a","t">>, <<"b","e","e","f">>, <<"p","o","r","k">>,
           <<"c","h","i","c","k","e","n">>, <<"m","u","t","t","o","n">>, <<"l","a","m","b">>,
           <<"f","r","e","s","h"," ","c","h","i","l","l","e","d"," ","m","e","a","t">>, <<"f","r","o","z","e","n"," ","m","e","a","t">>,
           <<"p","e","m">>, <<"p","o","u","l","t","r","y">>}],
     [category |-> "FISH", keywords |->
          {<<"f","i","s","h">>, <<"s","a","m","a","k","i">>, <<"s","a","l","m","o","n">>, <<"t","u","n","a">>, <<"t","i","l","a","p","i","a">>,
           <<"f","r","e","s","h"," ","f","i","s","h">>, <<"f","r","o","z","e","n"," ","f","i","s","h">>, <<"s","e","a","f","o","o","d">>,
           <<"s","a","r","d","i","n","e","s">>}],
     [category |-> "AVOCADO", keywords |->
          {<<"a","v","o","c","a","d","o">>, <<"p","a","r","a","c","h","i","c","h","i">>, <<"a","v","o","c","a","d","o","s">>,
           <<"f","r","e","s","h"," ","a","v","o","c","a","d","o">>}],
     [category |-> "VEGETABLES", keywords |->
          {<<"v","e","g","e","t","a","b","l","e","s">>, <<"m","b","o","g","a">>, <<"t","o","m","a","t","o","e","s">>, <<"o","n","i","o","n","s">>,
           <<"c","a","r","r","o","t","s">>, <<"c","a","b","b","a","g","e">>, <<"f","r","e","s","h"," ","v","e","g","e","t","a","b","l","e","s">>,
           <<"g","r","e","e","n"," ","b","e","a","n","s">>, <<"p","e","a","s">>, <<"p","o","t","a","t","o","e","s">>,
           <<"l","e","a","f","y"," ","v","e","g","e","t","a","b","l","e","s">>}],
     [category |-> "FLOWERS", keywords |->
          {<<"f","l","o","w","e","r","s">>, <<"m","a","u","a">>, <<"r","o","s","e","s">>,
           <<"c","h","r","y","s","a","n","t","h","e","m","u","m","s">>, <<"c","a","r","n","a","t","i","o","n","s">>,
           <<"f","r","e","s","h"," ","f","l","o","w","e","r","s">>, <<"c","u","t"," ","f","l","o","w","e","r","s">>, <<"f","l","o","r","a","l">>}],
     [category |-> "COURIER", keywords |->
          {<<"c","o","u","r","i","e","r">>, <<"e","x","p","r","e","s","s">>, <<"e","m","s">>, <<"d","h","l">>, <<"f","e","d","e","x">>,
           <<"u","p","s">>, <<"t","n","t">>, <<"d","o","c","u","m","e","n","t","s">>, <<"e","x","p","r","e","s","s"," ","m","a","i","l">>}],
     [category |-> "P.O.MAIL", keywords |->
          {<<"m","a","i","l">>, <<"p","o","s","t","a">>, <<"p","o","s","t">>, <<"p","o","s","t","a","l">>, <<"l","e","t","t","e","r","s">>,
           <<"r","e","g","i","s","t","e","r","e","d"," ","m","a","i","l">>, <<"p","a","r","c","e","l"," ","p","o","s","t">>,
           <<"a","i","r","m","a","i","l">>}],
     [category |-> "VALUABLES", keywords |->
          {<<"v","a","l","u","a","b","l","e","s">>, <<"g","o","l","d">>, <<"j","e","w","e","l","r","y">>, <<"d","i","a","m","o","n","d","s">>,
           <<"p","r","e","c","i","o","u","s">>, <<"v","a","l">>, <<"v","a","l","u","a","b","l","e"," ","c","a","r","g","o">>, <<"g","e","m","s">>,
           <<"b","u","l","l","i","o","n">>}],
     [category |-> "PER/COL", keywords |->
          {<<"p","e","r","i","s","h","a","b","l","e">>, <<"p","e","r">>, <<"c","o","l">>, <<"p","e","r","i","s","h","a","b","l","e","s">>,
           <<"c","o","l","d"," ","s","t","o","r","a","g","e">>,
           <<"t","e","m","p","e","r","a","t","u","r","e"," ","c","o","n","t","r","o","l","l","e","d">>, <<"c","h","i","l","l","e","d">>}],
     [category |-> "DG", keywords |->
          {<<"d","a","n","g","e","r","o","u","s"," ","g","o","o","d","s">>, <<"d","g">>, <<"h","a","z","a","r","d","o","u","s">>,
           <<"d","a","n","g","e","r","o","u","s">>, <<"t","o","x","i","c">>, <<"f","l","a","m","m","a","b","l","e">>,
           <<"c","o","r","r","o","s","i","v","e">>, <<"r","a","d","i","o","a","c","t","i","v","e">>}],
     [category |-> "CRABS/LOBSTER", keywords |->
          {<<"c","r","a","b">>, <<"l","o","b","s","t","e","r">>, <<"c","r","a","b","s">>, <<"l","o","b","s","t","e","r","s">>,
           <<"s","h","e","l","l","f","i","s","h">>, <<"k","a","a">>, <<"f","r","e","s","h"," ","c","r","a","b","s">>,
           <<"l","i","v","e"," ","c","r","a","b","s">>, <<"l","i","v","e"," ","l","o","b","s","t","e","r">>}]>>

\* clean_text(text)
clean_text(text) == IF text = NA THEN <<>> ELSE strip(lower(str(text)))

combined_text(nature, shc) == clean_text(nature) \o <<" ">> \o clean_text(shc)

\* the category of the first entry of a keyword table with a keyword in text,
\* "" when there is none
RECURSIVE keyword_match(_, _)
keyword_match(table, text) ==
    IF table = <<>> THEN ""
    ELSE IF \E keyword \in Head(table).keywords : Contains(keyword, text)
         THEN Head(table).category
         ELSE keyword_match(Tail(table), text)

\* the AWB number patterns tried when there is no text
awb_pattern_category(a) ==
    LET awb_str == upper(IF notna(a) THEN str(a) ELSE <<>>)
    IN  IF Contains(<<"V","A","L">>, awb_str) THEN "VALUABLES"
        ELSE IF Contains(<<"D","G">>, awb_str) THEN "DG"
        ELSE IF Contains(<<"P","E","R">>, awb_str) THEN "PER/COL"
        ELSE "G. CARGO"

\* classify_awb(awb, nature_goods, shcs): the category returned
classify_awb(a, nature, shc) ==
    LET text == combined_text(nature, shc)
    IN  IF notna(a) /\ startswith(upper(str(a)), s_MAL) THEN "P.O.MAIL"
        ELSE IF strip(text) = <<>> THEN awb_pattern_category(a)
        ELSE IF keyword_match(category_keywords, text) # ""
             THEN keyword_match(category_keywords, text)
        ELSE "G. CARGO"

\* re.findall(r'\b\w+\b', text): the maximal runs of word characters
WordChars ==
    {LowerLetters[i] : i \in 1..26} \cup {UpperLetters[i] : i \in 1..26}
    \cup {"0","1","2","3","4","5","6","7","8","9","_"}

findall_words(text) ==
    {SubSeq(text, p[1], p[2]) : p \in
        {p \in (1..Len(text)) \X (1..Len(text)) :
            /\ p[1] <= p[2]
            /\ \A k \in p[1]..p[2] : text[k] \in WordChars
            /\ (p[1] = 1 \/ text[p[1] - 1] \notin WordChars)
            /\ (p[2] = Len(text) \/ text[p[2] + 1] \notin WordChars)}}

\* self.unclassified_words after classify_awb(awb, nature_goods, shcs)
log_unclassified_words(a, nature, shc, logged) ==
    LET text == combined_text(nature, shc)
    IN  IF /\ ~(notna(a) /\ startswith(upper(str(a)), s_MAL))
           /\ strip(text) # <<>>
           /\ keyword_match(category_keywords, text) = ""
        THEN logged \cup {word \in findall_words(text) : Len(word) > 2}
        ELSE logged

\* category_map of src/src/transform.py, in the order the dict is iterated
category_map ==
    <<[category |-> "MEAT", keywords |->
          {<<"m","e","a","t">>, <<"n","y","a","m","a">>, <<"g","o","a","t"," ","m","e","a","t">>, <<"b","e","e","f">>,
           <<"f","r","e","s","h"," ","m","e","a","t">>, <<"c","h","i","l","l","e","d"," ","m","e","a","t">>,
           <<"f","r","o","z","e","n"," ","m","e","a","t">>, <<"p","e","m">>}],
     [category |-> "FISH", keywords |->
          {<<"f","i","s","h">>, <<"s","a","m","a","k","i">>}],
     [category |-> "VEGETABLES", keywords |->
          {<<"v","e","g","e","t","a","b","l","e">>, <<"m","b","o","g","a">>}],
     [category |-> "AVOCADO", keywords |->
          {<<"a","v","o","c","a","d","o">>, <<"p","a","r","a","c","h","i","c","h","i">>}],
     [category |-> "FLOWERS", keywords |->
          {<<"f","l","o","w","e","r">>, <<"m","a","u","a">>}],
     [category |-> "VALUABLES", keywords |->
          {<<"v","a","l","u","a","b","l","e">>, <<"v","a","l","u">>, <<"v","a","l">>}],
     [category |-> "COURIER", keywords |->
          {<<"c","o","u","r","i","e","r">>, <<"e","m","s">>, <<"e","x","p","r","e","s","s">>}],
     [category |-> "CRABS/LOBSTER", keywords |->
          {<<"c","r","a","b">>, <<"l","o","b","s","t","e","r">>, <<"k","a","m","b","a">>}],
     [category |-> "PER/COL", keywords |->
          {<<"p","e","r","i","s","h","a","b","l","e">>, <<"p","e","r">>, <<"c","o","l">>}],
     [category |-> "DG", keywords |->
          {<<"d","a","n","g","e","r","o","u","s">>, <<"d","g">>, <<"h","a","z","a","r","d">>}],
     [category |-> "G. CARGO", keywords |->
          {<<"g","e","n","e","r","a","l">>, <<"c","a","r","g","o">>, <<"g","c">>}]>>

\* classify_goods(nature, shc)
classify_goods(nature, shc) ==
    LET text == lower(str(nature)) \o <<" ">> \o lower(str(shc))
    IN  IF keyword_match(category_map, text) # ""
        THEN keyword_match(category_map, text)
        ELSE "G. CARGO"

ExtendedAwbValues ==
    {NA, <<"A","1">>, <<"M","A","L","1","2","3","4","5">>, <<"m","a","l","9","0","1">>, <<"V","A","L","7","7">>}
ExtendedNatureValues ==
    {NA, <<"F","r","e","s","h"," ","F","i","s","h">>, <<"L","i","v","e"," ","L","o","b","s","t","e","r">>, <<"f","i","s","h"," ","a","n","d"," ","c","r","a","b">>, <<"L","o","b","s","t","e","r",","," ","f","r","o","z","e","n"," ","f","i","s","h">>,
     <<"s","h","e","l","l","f","i","s","h">>, <<"w","i","d","g","e","t","s"," ","4","x">>, <<"F","r","e","s","h"," ","f","l","o","w","e","r","s">>}
ExtendedShcValues == {NA, <<"P","E","R">>, <<"C","O","U">>, <<"V","A","L">>, <<"G","E","N">>}

ExtendedInputs ==
    {[BaseRow EXCEPT !.AWB = a, !.Nature_Goods = ng, !.SHCs = sh] :
        a \in ExtendedAwbValues, ng \in ExtendedNatureValues,
        sh \in ExtendedShcValues}

\* one record and the classifier that is called on it
ExtendedInit ==
    /\ \E row \in ExtendedInputs :
          \E at \in {"classify_awb", "classify_goods"} : Start(<<row>>, at)
    /\ columns = required_columns

ClassifyAwb ==
    /\ pc = "classify_awb"
    /\ category' = classify_awb(df[1].AWB, df[1].Nature_Goods, df[1].SHCs)
    /\ unclassified_words' =
          log_unclassified_words(df[1].AWB, df[1].Nature_Goods, df[1].SHCs,
                                 unclassified_words)
    /\ pc' = "classified_awb"
    /\ UNCHANGED <<columns, now, returns, result, files, input, df,
                   duplicates_df, duplicates_removed, duplicate_log,
                   grouped, group, row_data, unique_awbs_by_category,
                   unclassified_log, transit_conflict_log, book2_data>>

ClassifyGoods ==
    /\ pc = "classify_goods"
    /\ category' = classify_goods(df[1].Nature_Goods, df[1].SHCs)
    /\ pc' = "classified_goods"
    /\ UNCHANGED <<columns, now, returns, result, files, unclassified_words,
                   input, df, duplicates_df, duplicates_removed, duplicate_log,
                   grouped, group, row_data, unique_awbs_by_category,
                   unclassified_log, transit_conflict_log, book2_data>>

ExtendedNext == ClassifyAwb \/ ClassifyGoods

SpecExtended == ExtendedInit /\ [][ExtendedNext]_vars

----------------------------------------------------------------------------
(* Properties                                                              *)

AfterDedup == pc \in {"group", "next_group", "iterrows", "done"}

\* the kept rows of the flight of the i-th output row
RowsOfRow(i) == group_rows(df, group_keys(df)[i])

\* the rows of a sequence that satisfy a test
Rows(d, Test(_)) == rows_at(d, {i \in 1..Len(d) : Test(d[i])})

RECURSIVE SumWeights(_)
SumWeights(d) == IF d = <<>> THEN 0 ELSE weight(Head(d)) + SumWeights(Tail(d))

NonZero(row) == weight(row) # 0

\* the distinct non-blank AWB numbers of a sequence of rows
AwbNumbers(d) == {d[i].AWB : i \in {i \in 1..Len(d) : awb(d[i]) # <<>>}}

\* C1: weight conservation.  For every output row, the sum of the six
\* category weights, and TOTAL WEIGHT, equal the sum of the weights of the
\* kept rows of that flight that have a non-zero weight.
C1_WeightConservation ==
    \A i \in 1..Len(book2_data) :
        LET kept == Rows(RowsOfRow(i), NonZero)
        IN  /\ sum_over(book2_data[i], category_columns) = SumWeights(kept)
            /\ book2_data[i]["TOTAL WEIGHT"] = SumWeights(kept)

\* C1 witness: a finished run with a row fed by several categories.
C1_Witness ==
    /\ pc = "done"
    /\ \E i \in 1..Len(book2_data) :
          /\ book2_data[i]["GENCARGO"] > 0
          /\ book2_data[i]["PER/COL"] > 0
          /\ book2_data[i]["P.O MAIL"] > 0

\* C2: AWB exclusivity.  Within one flight no AWB number is counted in the
\* AWB sets of two counted categories.
C2_AwbExclusive ==
    \A a \in UNION {unique_awbs_by_category[c] : c \in DOMAIN awb_col_mapping} :
        Cardinality({c \in DOMAIN awb_col_mapping :
                        a \in unique_awbs_by_category[c]}) <= 1

\* C3: for every output row, AWB TOTAL is the sum of the five per-category
\* AWB counts.
C3_TotalIsSumOfCounts ==
    \A i \in 1..Len(book2_data) :
        book2_data[i]["AWB TOTAL"] = sum_over(book2_data[i], awb_columns)

IsMail(row) == NonZero(row) /\ cargo_category(row) = "P.O MAIL"

NotMail(row) == NonZero(row) /\ cargo_category(row) # "P.O MAIL"

\* C4: mail exclusion.  For every output row, the mail weight is the sum of
\* the weights of the flight's rows classified as mail and is part of TOTAL
\* WEIGHT, while every AWB count and AWB TOTAL are what the flight's
\* non-mail rows alone give; a flight of mail only has all counts 0.
C4_MailExclusion ==
    \A i \in 1..Len(book2_data) :
        LET mail == Rows(RowsOfRow(i), IsMail)
            rest == Rows(RowsOfRow(i), NotMail)
            row == book2_data[i]
        IN  /\ row["P.O MAIL"] = SumWeights(mail)
            /\ row["TOTAL WEIGHT"] = SumWeights(mail) + SumWeights(rest)
            /\ \A c \in DOMAIN awb_col_mapping :
                  LET of_c(r) == cargo_category(r) = c
                  IN  row[awb_col_mapping[c]] =
                          Cardinality(AwbNumbers(Rows(rest, of_c)))
            /\ row["AWB TOTAL"] = Cardinality(AwbNumbers(rest))
            /\ rest = <<>> =>
                  /\ row["AWB TOTAL"] = 0
                  /\ \A col \in awb_columns : row[col] = 0

\* C4 witness: three line-items of AWB MAL900, 50 each, give one row with
\* mail weight 150 and no AWB counted.
C4_Witness ==
    /\ pc = "done"
    /\ Len(input) = 3
    /\ \A i \in 1..3 : input[i].AWB = <<"M","A","L","9","0","0">> /\ input[i].Weight = Num(50)
    /\ Len(book2_data) = 1
    /\ book2_data[1]["P.O MAIL"] = 150
    /\ book2_data[1]["TOTAL WEIGHT"] = 150
    /\ book2_data[1]["AWB TOTAL"] = 0
    /\ \A col \in awb_columns : book2_data[1][col] = 0

PriorityOrder == <<"TRANSIT", "P.O MAIL", "COURIER", "PER/COL", "DG", "GENCARGO">>

RuleMatches(c, row) ==
    CASE c = "TRANSIT"  -> is_transit(row)
      [] c = "P.O MAIL" -> is_po_mail(row)
      [] c = "COURIER"  -> is_courier(row)
      [] c = "PER/COL"  -> is_per_col(row)
      [] c = "DG"       -> is_dg(row)
      [] c = "GENCARGO" -> TRUE

\* the category of the first rule from position `from` on that matches
FirstMatch(row, from) ==
    PriorityOrder[CHOOSE i \in from..6 :
                     /\ RuleMatches(PriorityOrder[i], row)
                     /\ \A j \in from..(i - 1) : ~RuleMatches(PriorityOrder[j], row)]

Returned == pc = "returned" /\ NonZero(df[1])

\* C5: priority chain.  A call on a row of non-zero weight returns the
\* category of the first rule that matches in the order TRANSIT, P.O MAIL,
\* COURIER, PER/COL, DG, GENCARGO; CKD + NBO + 'MAL COU' is TRANSIT,
\* 'COU PER' is COURIER and 'DGR' with 'fresh fish' is PER/COL when no
\* higher rule matches.
C5_PriorityChain ==
    Returned =>
        LET row == df[1]
        IN  /\ category = FirstMatch(row, 1)
            /\ Cardinality({i \in 1..6 : PriorityOrder[i] = category}) = 1
            /\ (/\ row.Import_Status = <<"C","K","D">>
                /\ row.AWB_Dest = <<"N","B","O">>
                /\ row.SHCs = <<"M","A","L"," ","C","O","U">>) => category = "TRANSIT"
            /\ (/\ row.SHCs = <<"C","O","U"," ","P","E","R">>
                /\ ~is_transit(row) /\ ~is_po_mail(row)) => category = "COURIER"
            /\ (/\ row.SHCs = <<"D","G","R">>
                /\ row.Nature_Goods = <<"f","r","e","s","h"," ","f","i","s","h">>
                /\ ~is_transit(row) /\ ~is_po_mail(row)) => category = "PER/COL"

\* C5 witness: a returned call on a row that matches the transit, mail and
\* courier rules at once.
C5_Witness ==
    /\ Returned
    /\ is_transit(df[1]) /\ is_po_mail(df[1]) /\ is_courier(df[1])
    /\ category = "TRANSIT"

\* C6: transit-conflict logging.  When exactly one of "status contains CKD"
\* and "destination non-blank and not DAR" holds, the call appends one
\* transit-conflict entry with both truth values and returns the category of
\* the remaining rules; when both hold it returns TRANSIT and logs nothing;
\* when neither holds it logs nothing.
C6_TransitConflictLogging ==
    Returned =>
        LET row == df[1]
            ckd == Contains(s_CKD, import_status(row))
            away == awb_dest(row) \notin {s_DAR, <<>>}
        IN  /\ (ckd # away) =>
                  /\ Len(transit_conflict_log) = 1
                  /\ transit_conflict_log[1].Has_CKD = ckd
                  /\ transit_conflict_log[1].Dest_Not_DAR = away
                  /\ category # "TRANSIT"
                  /\ category = FirstMatch(row, 2)
            /\ (ckd /\ away) =>
                  category = "TRANSIT" /\ transit_conflict_log = <<>>
            /\ (~ckd /\ ~away) => transit_conflict_log = <<>>

\* C6 witness: a returned call that logged a destination-only conflict.
C6_Witness ==
    /\ Returned
    /\ Len(transit_conflict_log) = 1
    /\ ~transit_conflict_log[1].Has_CKD
    /\ transit_conflict_log[1].Dest_Not_DAR
    /\ category = "COURIER"

\* the frame the duplicate removal starts from
BeforeDedup == clean_uld(weight_filter(status_filter(input)))

\* C7: deduplication keeps the first row of every DuplicateKey group in
\* input order and reports every other row as its own duplicate entry, so
\* the number of entries equals the number of dropped rows.
C7_DedupReportsEachDropped ==
    AfterDedup =>
        /\ df = rows_at(BeforeDedup,
                    {i \in 1..Len(BeforeDedup) :
                        \A j \in 1..(i - 1) :
                            duplicate_key(BeforeDedup[j]) # duplicate_key(BeforeDedup[i])})
        /\ Cardinality(duplicate_log) = Len(BeforeDedup) - Len(df)

\* C8: deduplication is idempotent.  Removing duplicates from the kept rows
\* drops nothing.
C8_DedupIdempotent ==
    AfterDedup => drop_duplicates(clean_uld(df)) = df

\* C8 witness: a run whose duplicate removal dropped a row.
C8_Witness == pc = "group" /\ duplicates_removed > 0 /\ Len(df) > 1

\* C9: zero-weight exclusion.  A row whose weight is 0 or missing yields no
\* output row of its own, feeds no accumulator and appears in no diagnostic.
C9_ZeroWeightExcluded ==
    /\ \A i \in 1..Len(book2_data) : \E j \in 1..Len(RowsOfRow(i)) :
          NonZero(RowsOfRow(i)[j])
    /\ \A e \in duplicate_log : NonZero(e.first)
    /\ \A j \in 1..Len(transit_conflict_log) : transit_conflict_log[j].Weight # 0
    /\ \A j \in 1..Len(unclassified_log) : unclassified_log[j].Weight # 0

\* C10: mail prefix.  A row of non-zero weight that is not transit and whose
\* AWB starts with MAL in any letter case is classified P.O MAIL.
C10_MailPrefixAnyCase ==
    (Returned /\ ~is_transit(df[1]) /\ startswith(upper(awb(df[1])), s_MAL))
        => category = "P.O MAIL"


\* C11 as stated: a call appends at most one diagnostic in total, never one
\* to the transit conflict log and one to the unclassified log.
C11_AtMostOneDiagnostic ==
    Returned => Len(transit_conflict_log) + Len(unclassified_log) <= 1

\* C11: diagnostics of one call.  A call appends at most one entry to each
\* of the two logs; it appends one to both exactly when one of the two
\* transit conditions holds alone, no rule above the default matches, the
\* SHCs hold neither GEN nor GCR and the lower-cased description is neither
\* empty nor a generic term.
C11_AtMostOnePerLog ==
    Returned =>
        LET row == df[1]
            ckd == Contains(s_CKD, import_status(row))
            away == awb_dest(row) \notin {s_DAR, <<>>}
            gen == \E term \in general_shcs : Contains(term, shcs(row))
            desc == nature_goods(row)
        IN  /\ Len(transit_conflict_log) <= 1
            /\ Len(unclassified_log) <= 1
            /\ (Len(transit_conflict_log) = 1 /\ Len(unclassified_log) = 1)
                  <=> /\ ckd # away
                      /\ FirstMatch(row, 2) = "GENCARGO"
                      /\ ~gen
                      /\ desc \notin (generic_terms \cup {<<>>})

\* C11 witness: a returned call that appended to both logs.
C11_Witness ==
    /\ Returned
    /\ Len(transit_conflict_log) = 1
    /\ Len(unclassified_log) = 1
    /\ category = "GENCARGO"


\* C15: unclassified diagnostic rule.  A call appends an UnclassifiedEntry
\* if and only if no rule above the default matches, the SHCs name no
\* general cargo code, and the description, trimmed and lower-cased, is
\* neither blank nor one of 'general cargo', 'cargo', 'general', 'gen'.
C15_UnclassifiedRule ==
    Returned =>
        LET row == df[1]
            desc == IF notna(row.Nature_Goods)
                    THEN lower(strip(row.Nature_Goods)) ELSE <<>>
            default == /\ FirstMatch(row, 1) = "GENCARGO"
                       /\ ~\E term \in general_shcs : Contains(term, shcs(row))
        IN  (Len(unclassified_log) = 1)
                <=> (default /\ desc \notin (generic_terms \cup {<<>>}))


\* the separators of an SHC string and its upper-case tokens
Separators == {" ", ",", ";", "|", "/"}

Tokens(s) ==
    LET u == upper(s)
    IN  {SubSeq(u, i, j) : <<i, j>> \in
            {p \in (1..Len(u)) \X (1..Len(u)) :
                /\ p[1] <= p[2]
                /\ \A k \in p[1]..p[2] : u[k] \notin Separators
                /\ (p[1] = 1 \/ u[p[1] - 1] \in Separators)
                /\ (p[2] = Len(u) \/ u[p[2] + 1] \in Separators)}}

\* C18: SHC rules match whole tokens.  A call returns COURIER, PER/COL or DG
\* only when a token of the SHC string equals a code of that rule or the
\* description holds one of the rule's keywords; a code that occurs only
\* inside a longer token triggers nothing.
C18_ShcWholeTokens ==
    Returned =>
        LET row == df[1]
            tokens == Tokens(shcs(row))
            desc == nature_goods(row)
        IN  /\ category = "COURIER" =>
                    s_COU \in tokens \/ Contains(s_courier, desc)
            /\ category = "PER/COL" =>
                    \/ tokens \cap perishable_shcs # {}
                    \/ \E term \in perishable_terms : Contains(term, desc)
            /\ category = "DG" =>
                    \/ tokens \cap dangerous_shcs # {}
                    \/ Contains(s_dangerous, desc)


\* a row of the input that passes the status and the zero-weight filter
Survives(row) ==
    /\ strip(upper(str(row.Import_Status))) \notin excluded_statuses
    /\ row.Weight # Num(0)

\* C14 as stated: the duplicate filter runs on the full input, before the
\* status and the zero-weight filter, so a row is dropped as a duplicate
\* whenever an earlier input row has its key, even one that is filtered out.
C14_DedupFirst ==
    AfterDedup =>
        LET raw == clean_uld(input)
        IN  df = rows_at(raw,
                    {i \in 1..Len(raw) :
                        /\ Survives(raw[i])
                        /\ \A j \in 1..(i - 1) :
                              duplicate_key(raw[j]) # duplicate_key(raw[i])})

\* C14: the duplicate filter runs last.  A row that passes the status and
\* the zero-weight filter is dropped as a duplicate if and only if an
\* earlier row that also passes both filters has its DuplicateKey.
C14_DedupAfterFilters ==
    AfterDedup =>
        LET raw == clean_uld(input)
        IN  df = rows_at(raw,
                    {i \in 1..Len(raw) :
                        /\ Survives(raw[i])
                        /\ \A j \in 1..(i - 1) :
                              Survives(raw[j]) =>
                                  duplicate_key(raw[j]) # duplicate_key(raw[i])})

\* C14 witness: a kept row whose key an earlier, filtered-out row carries.
C14_Witness ==
    /\ AfterDedup
    /\ LET raw == clean_uld(input)
       IN  \E i \in 1..Len(raw) : \E j \in 1..(i - 1) :
              /\ duplicate_key(raw[j]) = duplicate_key(raw[i])
              /\ ~Survives(raw[j])
              /\ Survives(raw[i])
              /\ \E k \in 1..Len(df) : df[k] = raw[i]


\* C12: missing required column.  When a required column is absent the run
\* stops at the check: nothing is filtered, deduplicated, classified or
\* aggregated, no diagnostic is appended, no file is written, and the call
\* returns None.
C12_MissingColumnStops ==
    (\E col \in required_columns : col \notin columns) =>
        /\ pc \in {"check_columns", "failed"}
        /\ pc = "check_columns" => result = "pending"
        /\ pc = "failed" => result = "None"
        /\ df = input
        /\ duplicates_df = <<>> /\ duplicates_removed = 0 /\ duplicate_log = {}
        /\ grouped = <<>> /\ group = <<>> /\ category = "None"
        /\ unclassified_log = <<>> /\ transit_conflict_log = <<>>
        /\ book2_data = <<>>
        /\ files = {}

\* C12 witness: a failed run on records without the weight column.
C12_Witness ==
    /\ pc = "failed"
    /\ "Weight" \notin columns
    /\ Len(input) = MaxRows
    /\ result = "None"

\* C13: malformed field values never abort the run.  No run ends with an
\* exception; a run on records with all columns present reaches its end
\* and returns the Book2 rows.
C13_MalformedNeverAborts ==
    /\ result # "ValueError"
    /\ pc # "raised"

C17_OneRowPerFlight ==
    \A i, j \in 1..Len(book2_data) :
        i # j =>
            <<book2_data[i]["DATE"], book2_data[i]["AIRLINE"],
              book2_data[i]["FLIGHT NO"], book2_data[i]["ROUTE"]>>
            # <<book2_data[j]["DATE"], book2_data[j]["AIRLINE"],
                book2_data[j]["FLIGHT NO"], book2_data[j]["ROUTE"]>>


\* the FISH and crab keywords of the claim, read from the keyword table
FishKeywords ==
    (CHOOSE e \in {category_keywords[i] : i \in 1..Len(category_keywords)} :
        e.category = "FISH").keywords

\* C20: fish versus crabs/lobster.  A record whose AWB does not start with
\* MAL and whose description holds a fish keyword and also 'lobster' or
\* 'crab' is classified CRABS/LOBSTER by the fine-grained classifier.
C20_CrabsBeforeFish ==
    LET row == df[1]
        desc == clean_text(row.Nature_Goods)
    IN  (/\ pc \in {"classified_awb", "classified_goods"}
         /\ ~startswith(upper(str(row.AWB)), s_MAL)
         /\ \E keyword \in FishKeywords : Contains(keyword, desc)
         /\ \/ Contains(<<"l","o","b","s","t","e","r">>, desc)
            \/ Contains(<<"c","r","a","b">>, desc))
        => category = "CRABS/LOBSTER"


\* the entries of a log without their time stamps
Unstamped(log) == [i \in 1..Len(log) |-> [log[i] EXCEPT !.Timestamp = 0]]

AloneCategories ==
    LET row == df[1]
    IN  IF pc = "classified_awb"
        THEN <<keyword_match(category_keywords, clean_text(row.Nature_Goods)),
               keyword_match(category_keywords, clean_text(row.SHCs))>>
        ELSE <<keyword_match(category_map, lower(str(row.Nature_Goods))),
               keyword_match(category_map, lower(str(row.SHCs)))>>

\* C21: SHC/description conflict.  When the description alone and the SHC
\* string alone resolve to two different categories (AWB not a mail AWB),
\* the fine-grained classifier returns G. CARGO and records a diagnostic;
\* it never returns either of the two conflicting categories.
C21_ConflictFallsToGeneral ==
    (/\ pc \in {"classified_awb", "classified_goods"}
     /\ ~(pc = "classified_awb" /\ startswith(upper(str(df[1].AWB)), s_MAL))
     /\ AloneCategories[1] # ""
     /\ AloneCategories[2] # ""
     /\ AloneCategories[1] # AloneCategories[2])
        => /\ category = "G. CARGO"
           /\ category \notin {AloneCategories[1], AloneCategories[2]}
           /\ unclassified_words # {}

====
